---- MODULE Spec2Model ----
(***************************************************************************)
(* Model of builder.py: PortfolioCreator, a fetch -> generate -> deploy    *)
(* pipeline.  Text is a sequence of characters; a character is a string    *)
(* atom ("/" and "." are the characters the path operations look at, "LF"  *)
(* and "CR" are the line-feed and carriage-return characters, and an atom  *)
(* such as "-portfolio" stands for that literal run of ordinary            *)
(* characters).  A directory is the sequence of its component names from   *)
(* the filesystem root.                                                    *)
(***************************************************************************)
EXTENDS Integers, Sequences, FiniteSets, TLC

\* ------------------------------------------------------------- bounds
\* longest identifier (username) tried, in characters
MaxLen == 2
\* longest generated markup tried, in characters
MaxMarkup == 1
\* longest text a failed write is tried to leave behind, in characters
MaxPartial == 1

\* the two invocations of create_portfolio_for_github_user that may overlap
Runs == {"r1", "r2"}

RECURSIVE SeqsUpTo(_, _)
SeqsUpTo(S, n) ==
    IF n = 0 THEN {<<>>}
    ELSE LET shorter == SeqsUpTo(S, n - 1)
         IN  shorter \cup {Append(s, c) : s \in shorter, c \in S}

\* characters an identifier is built from: an ordinary one and the two the
\* path operations of the publisher treat specially
IdChars == {"a", ".", "/"}
Identifiers == SeqsUpTo(IdChars, MaxLen)

\* characters of the generated markup: an ordinary one and the line feed
MarkupChars == {"h", "LF"}
Markups == SeqsUpTo(MarkupChars, MaxMarkup)

\* values os.getenv can give for a credential: unset, empty, set
EnvValues == {"None", "", "tok"}

\* status codes the profile provider answers with
Statuses == {200, 404, 500}

\* decoded profile records (opaque to the program)
Profiles == {"octocat_record", "other_record"}

\* what the deployment command can end with: exit status, stdout, stderr
Results ==
    { [returncode |-> 0, stdout |-> <<"url">>, stderr |-> <<>>],
      [returncode |-> 0, stdout |-> <<" ", "url", "LF">>, stderr |-> <<"warn">>],
      [returncode |-> 1, stdout |-> <<>>, stderr |-> <<"Invalid token">>],
      [returncode |-> 2, stdout |-> <<"url">>, stderr |-> <<"boom", "LF">>] }

\* os.linesep of the platform the program runs on
LineSeps == { <<"LF">>, <<"CR", "LF">> }

\* ------------------------------------------------- text and path helpers
NoPath == << <<"<unset>">> >>
NoText == <<"<unset>">>

\* f"{username}-portfolio"
PortfolioSuffix == <<"-portfolio">>
ProjectName(username) == username \o PortfolioSuffix

\* str.split("/") as the path parser sees a name
RECURSIVE SplitAcc(_, _, _)
SplitAcc(s, cur, acc) ==
    IF s = <<>> THEN Append(acc, cur)
    ELSE IF Head(s) = "/" THEN SplitAcc(Tail(s), <<>>, Append(acc, cur))
    ELSE SplitAcc(Tail(s), Append(cur, Head(s)), acc)
Split(s) == SplitAcc(s, <<>>, <<>>)

\* pathlib drops empty and "." components when it parses a name
RECURSIVE DropDots(_)
DropDots(cs) ==
    IF cs = <<>> THEN <<>>
    ELSE IF Head(cs) \in {<<>>, <<".">>} THEN DropDots(Tail(cs))
    ELSE <<Head(cs)>> \o DropDots(Tail(cs))

IsAbsolute(name) == name # <<>> /\ Head(name) = "/"

\* Path(base) / name : an absolute right operand replaces the left one
PathJoin(base, name) ==
    IF IsAbsolute(name) THEN DropDots(Split(name))
    ELSE base \o DropDots(Split(name))

Parent(d) == IF d = <<>> THEN <<>> ELSE SubSeq(d, 1, Len(d) - 1)

\* the directory a path names once the system has followed its ".." components
RECURSIVE ResolveFrom(_, _)
ResolveFrom(cur, cs) ==
    IF cs = <<>> THEN cur
    ELSE IF Head(cs) = <<".", ".">> THEN ResolveFrom(Parent(cur), Tail(cs))
    ELSE ResolveFrom(Append(cur, Head(cs)), Tail(cs))
Resolve(p) == ResolveFrom(<<>>, p)

IsPrefix(p, q) == Len(p) <= Len(q) /\ SubSeq(q, 1, Len(p)) = p

\* os.makedirs(path): creates the missing directories on the way, left to
\* right, then the leaf; the leaf must not exist yet (exist_ok is False)
RECURSIVE MakeDirsFrom(_, _, _, _)
MakeDirsFrom(ds, fs, cur, cs) ==
    LET c    == Head(cs)
        next == Append(cur, c)
    IN  IF c = <<".", ".">> /\ Len(cs) > 1
          THEN MakeDirsFrom(ds, fs, Parent(cur), Tail(cs))
        ELSE IF next \in DOMAIN fs
          THEN [err |-> IF Len(cs) = 1 THEN "FileExistsError" ELSE "NotADirectoryError",
                dirs |-> ds]
        ELSE IF Len(cs) = 1
          THEN IF next \in ds \/ c = <<".", ".">>
                 THEN [err |-> "FileExistsError", dirs |-> ds]
                 ELSE [err |-> "none", dirs |-> ds \cup {next}]
        ELSE MakeDirsFrom(ds \cup {next}, fs, next, Tail(cs))
MakeDirs(ds, fs, p) ==
    IF p = <<>> THEN [err |-> "FileExistsError", dirs |-> ds]
    ELSE MakeDirsFrom(ds, fs, <<>>, p)

\* shutil.rmtree(d), as TemporaryDirectory.cleanup calls it
RmTreeDirs(ds, d) == {x \in ds : ~IsPrefix(d, x)}
RmTreeFiles(fs, d) == [x \in {y \in DOMAIN fs : ~IsPrefix(d, y)} |-> fs[x]]

\* file.write in text mode: every line feed becomes os.linesep
RECURSIVE TextModeWrite(_, _)
TextModeWrite(s, sep) ==
    IF s = <<>> THEN <<>>
    ELSE (IF Head(s) = "LF" THEN sep ELSE <<Head(s)>>) \o TextModeWrite(Tail(s), sep)

\* str.strip(): leading and trailing whitespace removed
Whitespace == {" ", "LF", "CR"}
RECURSIVE LStrip(_)
LStrip(s) == IF s # <<>> /\ Head(s) \in Whitespace THEN LStrip(Tail(s)) ELSE s
RECURSIVE RStrip(_)
RStrip(s) ==
    IF s # <<>> /\ s[Len(s)] \in Whitespace THEN RStrip(SubSeq(s, 1, Len(s) - 1)) ELSE s
Strip(s) == RStrip(LStrip(s))

\* str(n) of a natural number, as the f-string and json.dump format it
Digits == <<"0", "1", "2", "3", "4", "5", "6", "7", "8", "9">>
RECURSIVE IntText(_)
IntText(n) ==
    IF n < 10 THEN <<Digits[n + 1]>>
    ELSE IntText(n \div 10) \o <<Digits[(n % 10) + 1]>>

\* ------------------------------------------------------------ json.dump
\* the characters json.dump escapes inside a string literal
RECURSIVE JsonEscape(_)
JsonEscape(s) ==
    IF s = <<>> THEN <<>>
    ELSE (CASE Head(s) = "\"" -> <<"\\", "\"">>
            [] Head(s) = "\\" -> <<"\\", "\\">>
            [] Head(s) = "LF" -> <<"\\", "n">>
            [] Head(s) = "CR" -> <<"\\", "r">>
            [] OTHER -> <<Head(s)>>) \o JsonEscape(Tail(s))
JsonString(s) == <<"\"">> \o JsonEscape(s) \o <<"\"">>

JsonBuild(b) ==
    <<"{">> \o JsonString(<<"src">>) \o <<": ">> \o JsonString(b.src) \o <<", ">>
            \o JsonString(<<"use">>) \o <<": ">> \o JsonString(b.use) \o <<"}">>

RECURSIVE JsonBuilds(_)
JsonBuilds(bs) ==
    IF bs = <<>> THEN <<>>
    ELSE JsonBuild(Head(bs))
         \o (IF Tail(bs) = <<>> THEN <<>> ELSE <<", ">>) \o JsonBuilds(Tail(bs))

\* json.dumps(vercel_config) with the default separators
JsonDumps(cfg) ==
    <<"{">> \o JsonString(<<"name">>) \o <<": ">> \o JsonString(cfg.name) \o <<", ">>
            \o JsonString(<<"version">>) \o <<": ">> \o IntText(cfg.version) \o <<", ">>
            \o JsonString(<<"builds">>) \o <<": ", "[">> \o JsonBuilds(cfg.builds)
            \o <<"]", "}">>

\* a manifest that forgets the project name it was given
VercelConfigFixedName(project_name) ==
    [name |-> PortfolioSuffix,
     version |-> 2,
     builds |-> << [src |-> <<"index.html">>, use |-> <<"@vercel/static">>] >>]
\* the manifest of deploy_to_vercel
ManifestVersion == 2
VercelConfig(project_name) ==
    [name |-> project_name,
     version |-> ManifestVersion,
     builds |-> << [src |-> <<"index.html">>, use |-> <<"@vercel/static">>] >>]

IndexFile(project_dir) == Append(project_dir, <<"index.html">>)
\* a manifest written next to the project directory instead of into it
ManifestFileInParent(project_dir) ==
    Append(Parent(project_dir), <<"vercel.json">>)
ManifestFile(project_dir) == Append(project_dir, <<"vercel.json">>)

\* ----------------------------------------------------------- conditions
\* `not value` for a credential read by os.getenv
Falsy(v) == v \in {"None", ""}
\* a check that looks at one credential only
ConfigMissingTokenOnly(e) == e.VERCEL_TOKEN \in {"None", ""}
ConfigMissing(e) == Falsy(e.VERCEL_TOKEN) \/ Falsy(e.OPENAI_API_KEY)
\* a check that knows "not found" as the only failure
FetchFailedOnly404(status) == status = 404
\* response.status_code != 200
FetchFailed(status) == status # 200
\* a check that knows exit status 1 as the only failure
DeploySucceededUnless1(returncode) == returncode # 1
\* result.returncode == 0
DeploySucceeded(returncode) == returncode = 0

FetchErrorLine(status) ==
    <<"Error fetching GitHub profile data. Status code: ">> \o IntText(status)
SuccessLines(stdout) ==
    << <<"Deployment successful!">>,
       <<"Your website is live at: ">> \o Strip(stdout) >>
FailureLines(stderr) == << <<"Deployment failed:", " ">> \o stderr >>

\* ---------------------------------------------------------------- state
VARIABLES
    env,                 \* VERCEL_TOKEN and OPENAI_API_KEY as os.getenv gives them
    linesep,             \* os.linesep
    proc,                \* the process: "boot", "ready", or "ValueError" (startup raised)
    creator,             \* the PortfolioCreator's fields
    dirs,                \* the directories of the filesystem
    files,               \* the files: path -> [data, open]
    pc,                  \* each run's position in create_portfolio_for_github_user
    username,            \* each run's input identifier
    status_code,         \* response.status_code
    github_profile_data, \* response.json()
    html_content,        \* what generate_website_content returned
    project_name,
    temp_dir,
    project_dir,
    result,              \* the CompletedProcess of subprocess.run
    output,              \* the lines the run printed
    exc,                 \* the exception in flight or delivered to the caller
    calls,               \* how often the run issued each external call
    seen                 \* the project directory as the deployment command found it

vars == <<env, linesep, proc, creator, dirs, files, pc, username, status_code,
          github_profile_data, html_content, project_name, temp_dir, project_dir,
          result, output, exc, calls, seen>>

fsVars == <<dirs, files>>
configVars == <<env, linesep, proc, creator>>

NoCreator == [vercel_token |-> "None", openai_api_key |-> "None"]
NoResult == [returncode |-> -1, stdout |-> NoText, stderr |-> NoText]
NoCalls == [fetch |-> 0, json |-> 0, generate |-> 0, deploy |-> 0, tempdir |-> 0,
            command |-> 0]
NotSeen == {[name |-> <<"<not invoked>">>, kind |-> "none", data |-> <<>>, open |-> FALSE]}

\* the system's temporary-file directory and the fresh directory mkdtemp makes
TmpRoot == << <<"tmp">> >>
MkdTemp(r) == Append(TmpRoot, <<"tmpdir_", r>>)

\* what a directory holds: its files and its subdirectories
Last(p) == p[Len(p)]
Listing(ds, fs, d) ==
    {[name |-> Last(p), kind |-> "file", data |-> fs[p].data, open |-> fs[p].open] :
        p \in {q \in DOMAIN fs : Parent(q) = d}}
    \cup {[name |-> Last(x), kind |-> "dir", data |-> <<>>, open |-> FALSE] :
        x \in {y \in ds : y # <<>> /\ Parent(y) = d}}

\* open(path, "w"): the file is created or truncated, and held open
OpenForWrite(fs, path) ==
    [x \in DOMAIN fs \cup {path} |-> IF x = path THEN [data |-> <<>>, open |-> TRUE] ELSE fs[x]]
\* the end of the with-block: the buffered text reaches the file, which is closed
WriteAndClose(fs, path, data) ==
    [x \in DOMAIN fs |-> IF x = path THEN [data |-> data, open |-> FALSE] ELSE fs[x]]

\* what a write that fails part-way can leave in the file
Min(a, b) == IF a < b THEN a ELSE b
PartialWrites(s) == {SubSeq(s, 1, k) : k \in 0..Min(Len(s) - 1, MaxPartial)}

InitWith(active, seps) ==
    /\ env \in [VERCEL_TOKEN : EnvValues, OPENAI_API_KEY : EnvValues]
    /\ linesep \in seps
    /\ proc = "boot"
    /\ creator = NoCreator
    /\ dirs = {<<>>, TmpRoot}
    /\ files = << >>
    /\ pc = [r \in Runs |-> IF r \in active THEN "start" ELSE "idle"]
    /\ username \in {u \in [Runs -> Identifiers] : \A r \in Runs \ active : u[r] = <<>>}
    /\ status_code = [r \in Runs |-> 0]
    /\ github_profile_data = [r \in Runs |-> "None"]
    /\ html_content = [r \in Runs |-> NoText]
    /\ project_name = [r \in Runs |-> NoText]
    /\ temp_dir = [r \in Runs |-> NoPath]
    /\ project_dir = [r \in Runs |-> NoPath]
    /\ result = [r \in Runs |-> NoResult]
    /\ output = [r \in Runs |-> <<>>]
    /\ exc = [r \in Runs |-> "none"]
    /\ calls = [r \in Runs |-> NoCalls]
    /\ seen = [r \in Runs |-> NotSeen]

\* one run at a time, as the program is written, on either kind of platform
Init == InitWith({"r1"}, LineSeps)
\* two overlapping runs; the line separator plays no part in how runs meet
InitConcurrent == InitWith(Runs, { <<"LF">> })

Bump(r, what) == [calls EXCEPT ![r][what] = @ + 1]

\* lines 12-17 and 87: the credentials are read and checked, the creator is built
LoadConfig ==
    /\ proc = "boot"
    /\ IF ConfigMissing(env)
         THEN /\ proc' = "ValueError"
              /\ UNCHANGED creator
         ELSE /\ proc' = "ready"
              /\ creator' = [vercel_token |-> env.VERCEL_TOKEN,
                             openai_api_key |-> env.OPENAI_API_KEY]
    /\ UNCHANGED <<env, linesep, dirs, files, pc, username, status_code,
                   github_profile_data, html_content, project_name, temp_dir,
                   project_dir, result, output, exc, calls, seen>>

\* a fetch that is tried again after a failure status
FetchWithRetry(r) ==
    /\ proc = "ready"
    /\ pc[r] = "start"
    /\ calls' = Bump(r, "fetch")
    /\ \E s \in Statuses :
         /\ status_code' = [status_code EXCEPT ![r] = s]
         /\ pc' = [pc EXCEPT ![r] = IF s # 200 THEN "start" ELSE "fetched"]
    /\ UNCHANGED <<configVars, fsVars, username, github_profile_data, html_content,
                   project_name, temp_dir, project_dir, result, output, exc, seen>>

\* lines 75-78: requests.get, then the status check
Fetch(r) ==
    /\ proc = "ready"
    /\ pc[r] = "start"
    /\ calls' = Bump(r, "fetch")
    /\ \/ /\ exc' = [exc EXCEPT ![r] = "RequestException"]
          /\ pc' = [pc EXCEPT ![r] = "raised"]
          /\ UNCHANGED <<status_code, output>>
       \/ \E s \in Statuses :
            /\ status_code' = [status_code EXCEPT ![r] = s]
            /\ IF FetchFailed(s)
                 THEN /\ output' = [output EXCEPT ![r] = Append(@, FetchErrorLine(s))]
                      /\ pc' = [pc EXCEPT ![r] = "returned"]
                 ELSE /\ pc' = [pc EXCEPT ![r] = "fetched"]
                      /\ UNCHANGED output
            /\ UNCHANGED exc
    /\ UNCHANGED <<configVars, fsVars, username, github_profile_data, html_content,
                   project_name, temp_dir, project_dir, result, seen>>

\* line 80: response.json()
ParseProfile(r) ==
    /\ pc[r] = "fetched"
    /\ calls' = Bump(r, "json")
    /\ \/ /\ exc' = [exc EXCEPT ![r] = "JSONDecodeError"]
          /\ pc' = [pc EXCEPT ![r] = "raised"]
          /\ UNCHANGED github_profile_data
       \/ \E p \in Profiles :
            /\ github_profile_data' = [github_profile_data EXCEPT ![r] = p]
            /\ pc' = [pc EXCEPT ![r] = "parsed"]
            /\ UNCHANGED exc
    /\ UNCHANGED <<configVars, fsVars, username, status_code, html_content,
                   project_name, temp_dir, project_dir, result, output, seen>>

\* a generation step that notes the failure and goes on with an empty page
GenerateAndGoOn(r) ==
    /\ pc[r] = "parsed"
    /\ calls' = Bump(r, "generate")
    /\ \/ /\ exc' = [exc EXCEPT ![r] = "GenerationError"]
          /\ html_content' = [html_content EXCEPT ![r] = <<>>]
       \/ /\ \E m \in Markups : html_content' = [html_content EXCEPT ![r] = m]
          /\ UNCHANGED exc
    /\ github_profile_data' = [github_profile_data EXCEPT ![r] = "None"]
    /\ pc' = [pc EXCEPT ![r] = "generated"]
    /\ UNCHANGED <<configVars, fsVars, username, status_code,
                   project_name, temp_dir, project_dir, result, output, seen>>

\* lines 81 and 51-71: the generation service is called once with the profile
\* record; it answers with a text or raises.  The record is not read after
\* this call, and the state stops carrying it once the call has returned
Generate(r) ==
    /\ pc[r] = "parsed"
    /\ calls' = Bump(r, "generate")
    /\ \/ /\ exc' = [exc EXCEPT ![r] = "GenerationError"]
          /\ pc' = [pc EXCEPT ![r] = "raised"]
          /\ UNCHANGED <<html_content, github_profile_data>>
       \/ \E m \in Markups :
            /\ html_content' = [html_content EXCEPT ![r] = m]
            /\ github_profile_data' = [github_profile_data EXCEPT ![r] = "None"]
            /\ pc' = [pc EXCEPT ![r] = "generated"]
            /\ UNCHANGED exc
    /\ UNCHANGED <<configVars, fsVars, username, status_code,
                   project_name, temp_dir, project_dir, result, output, seen>>

Raise(r, e, where) ==
    /\ exc' = [exc EXCEPT ![r] = e]
    /\ pc' = [pc EXCEPT ![r] = where]

\* lines 82-83 and 26-27: the project name is derived, deploy_to_vercel is
\* entered, the temporary directory is made and the project path joined
EnterTempDir(r) ==
    /\ pc[r] = "generated"
    /\ project_name' = [project_name EXCEPT ![r] = ProjectName(username[r])]
    /\ \/ /\ Raise(r, "OSError", "raised")
          /\ calls' = Bump(r, "deploy")
          /\ UNCHANGED <<dirs, temp_dir, project_dir>>
       \/ /\ dirs' = dirs \cup {MkdTemp(r)}
          /\ temp_dir' = [temp_dir EXCEPT ![r] = MkdTemp(r)]
          /\ project_dir' = [project_dir EXCEPT ![r] =
                                PathJoin(MkdTemp(r), ProjectName(username[r]))]
          /\ calls' = [calls EXCEPT ![r]["deploy"] = @ + 1, ![r]["tempdir"] = @ + 1]
          /\ pc' = [pc EXCEPT ![r] = "in_tempdir"]
          /\ UNCHANGED exc
    /\ UNCHANGED <<configVars, files, username, status_code, github_profile_data,
                   html_content, result, output, seen>>

\* line 28: os.makedirs(project_dir)
MakeProjectDir(r) ==
    /\ pc[r] = "in_tempdir"
    /\ \/ LET made == MakeDirs(dirs, files, project_dir[r])
          IN  IF made.err = "none"
                THEN /\ dirs' = made.dirs
                     /\ pc' = [pc EXCEPT ![r] = "made"]
                     /\ UNCHANGED exc
                ELSE /\ Raise(r, made.err, "unwinding")
                     /\ UNCHANGED dirs
       \/ /\ Raise(r, "OSError", "unwinding")
          /\ UNCHANGED dirs
    /\ UNCHANGED <<configVars, files, username, status_code, github_profile_data,
                   html_content, project_name, temp_dir, project_dir, result, output,
                   calls, seen>>

\* the with-block around a file: open(path, "w") ...
OpenFile(r, from, to, path) ==
    /\ pc[r] = from
    /\ \/ /\ Parent(path) \in dirs
          /\ path \notin dirs
          /\ files' = OpenForWrite(files, path)
          /\ pc' = [pc EXCEPT ![r] = to]
          /\ UNCHANGED exc
       \/ /\ Raise(r, "OSError", "unwinding")
          /\ UNCHANGED files
    /\ UNCHANGED <<configVars, dirs, username, status_code, github_profile_data,
                   html_content, project_name, temp_dir, project_dir, result, output,
                   calls, seen>>

\* ... and the write in it, flushed when the block closes the file
WriteFile(r, from, to, path, data) ==
    /\ pc[r] = from
    /\ \/ /\ files' = WriteAndClose(files, path, data)
          /\ pc' = [pc EXCEPT ![r] = to]
          /\ UNCHANGED exc
       \/ \E part \in PartialWrites(data) :
            /\ files' = WriteAndClose(files, path, part)
            /\ Raise(r, "OSError", "unwinding")
       \/ /\ files' = WriteAndClose(files, path, <<>>)
          /\ Raise(r, "UnicodeEncodeError", "unwinding")
    /\ UNCHANGED <<configVars, dirs, username, status_code, github_profile_data,
                   html_content, project_name, temp_dir, project_dir, result, output,
                   calls, seen>>

\* line 30
OpenIndex(r) ==
    OpenFile(r, "made", "index_open", IndexFile(Resolve(project_dir[r])))
\* line 31
WriteIndex(r) ==
    WriteFile(r, "index_open", "index_written", IndexFile(Resolve(project_dir[r])),
              TextModeWrite(html_content[r], linesep))
\* lines 33-39
OpenManifest(r) ==
    OpenFile(r, "index_written", "manifest_open", ManifestFile(Resolve(project_dir[r])))
\* line 40
WriteManifest(r) ==
    WriteFile(r, "manifest_open", "manifest_written",
              ManifestFile(Resolve(project_dir[r])),
              TextModeWrite(JsonDumps(VercelConfig(project_name[r])), linesep))

\* lines 42-43: subprocess.run starts the command in project_dir
InvokeVercel(r) ==
    /\ pc[r] = "manifest_written"
    /\ \/ /\ calls' = Bump(r, "command")
          /\ seen' = [seen EXCEPT ![r] = Listing(dirs, files, Resolve(project_dir[r]))]
          /\ pc' = [pc EXCEPT ![r] = "running"]
          /\ UNCHANGED exc
       \/ /\ Raise(r, "FileNotFoundError", "unwinding")
          /\ UNCHANGED <<calls, seen>>
    /\ UNCHANGED <<configVars, fsVars, username, status_code, github_profile_data,
                   html_content, project_name, temp_dir, project_dir, result, output>>

\* lines 43-49: the command ends, its exit status picks what is printed
CompleteVercel(r) ==
    /\ pc[r] = "running"
    /\ \E res \in Results :
         /\ result' = [result EXCEPT ![r] = res]
         /\ output' = [output EXCEPT ![r] =
                          @ \o (IF DeploySucceeded(res.returncode)
                                  THEN SuccessLines(res.stdout)
                                  ELSE FailureLines(res.stderr))]
    /\ pc' = [pc EXCEPT ![r] = "leaving"]
    /\ UNCHANGED <<configVars, fsVars, username, status_code, github_profile_data,
                   html_content, project_name, temp_dir, project_dir, exc, calls,
                   seen>>

\* line 26, leaving the with-block normally or by an exception:
\* TemporaryDirectory.cleanup removes the tree under temp_dir
ExitTempDir(r) ==
    /\ pc[r] \in {"leaving", "unwinding"}
    /\ dirs' = RmTreeDirs(dirs, temp_dir[r])
    /\ files' = RmTreeFiles(files, temp_dir[r])
    /\ pc' = [pc EXCEPT ![r] = IF exc[r] = "none" THEN "returned" ELSE "raised"]
    /\ UNCHANGED <<configVars, username, status_code, github_profile_data,
                   html_content, project_name, temp_dir, project_dir, result, output,
                   exc, calls, seen>>

Next ==
    \/ LoadConfig
    \/ \E r \in Runs : Fetch(r)
    \/ \E r \in Runs : ParseProfile(r)
    \/ \E r \in Runs : Generate(r)
    \/ \E r \in Runs : EnterTempDir(r)
    \/ \E r \in Runs : MakeProjectDir(r)
    \/ \E r \in Runs : OpenIndex(r)
    \/ \E r \in Runs : WriteIndex(r)
    \/ \E r \in Runs : OpenManifest(r)
    \/ \E r \in Runs : WriteManifest(r)
    \/ \E r \in Runs : InvokeVercel(r)
    \/ \E r \in Runs : CompleteVercel(r)
    \/ \E r \in Runs : ExitTempDir(r)

Spec == Init /\ [][Next]_vars
SpecConcurrent == InitConcurrent /\ [][Next]_vars

Terminal == {"returned", "raised"}

\* ------------------------------------------------ reading the files back
\* These read what the program wrote the way its consumers do: a JSON
\* parser for the manifest, a decimal parser for a printed number.

DigitValue(c) == CHOOSE d \in 0..9 : Digits[d + 1] = c
IsDigit(c) == \E d \in 0..9 : Digits[d + 1] = c
RECURSIVE DecimalValue(_)
DecimalValue(t) ==
    IF t = <<>> THEN 0
    ELSE 10 * DecimalValue(SubSeq(t, 1, Len(t) - 1)) + DigitValue(t[Len(t)])

JsonUnescape(c) ==
    CASE c = "n" -> "LF"
      [] c = "r" -> "CR"
      [] OTHER -> c

\* a string literal whose opening quote is behind position i - 1:
\* [ok, val, next], next being the position after the closing quote
RECURSIVE ScanString(_, _, _)
ScanString(t, i, acc) ==
    IF i > Len(t) THEN [ok |-> FALSE, val |-> acc, next |-> i]
    ELSE IF t[i] = "\"" THEN [ok |-> TRUE, val |-> acc, next |-> i + 1]
    ELSE IF t[i] = "\\"
      THEN IF i + 1 > Len(t) THEN [ok |-> FALSE, val |-> acc, next |-> i]
           ELSE ScanString(t, i + 2, Append(acc, JsonUnescape(t[i + 1])))
    ELSE ScanString(t, i + 1, Append(acc, t[i]))
ReadString(t, i) ==
    IF i <= Len(t) /\ t[i] = "\"" THEN ScanString(t, i + 1, <<>>)
    ELSE [ok |-> FALSE, val |-> <<>>, next |-> i]

RECURSIVE ScanDigits(_, _)
ScanDigits(t, i) == IF i <= Len(t) /\ IsDigit(t[i]) THEN ScanDigits(t, i + 1) ELSE i

Expect(t, i, c) == i <= Len(t) /\ t[i] = c

\* "key": "value" at position i
ReadStringMember(t, i, key) ==
    LET k == ReadString(t, i)
        v == ReadString(t, k.next + 1)
    IN  [ok |-> k.ok /\ k.val = key /\ Expect(t, k.next, ": ") /\ v.ok,
         val |-> v.val, next |-> v.next]

InvalidManifest == [name |-> <<"<invalid>">>, version |-> -1, builds |-> <<>>]

\* json.loads of a manifest: an object of name, version and a builds array
\* holding one object of src and use
JsonLoads(t) ==
    LET name    == ReadStringMember(t, 2, <<"name">>)
        vkey    == ReadString(t, name.next + 1)
        vend    == ScanDigits(t, vkey.next + 1)
        bkey    == ReadString(t, vend + 1)
        src     == ReadStringMember(t, bkey.next + 3, <<"src">>)
        use     == ReadStringMember(t, src.next + 1, <<"use">>)
    IN  IF /\ Expect(t, 1, "{")
           /\ name.ok /\ Expect(t, name.next, ", ")
           /\ vkey.ok /\ vkey.val = <<"version">> /\ Expect(t, vkey.next, ": ")
           /\ vend > vkey.next + 1 /\ Expect(t, vend, ", ")
           /\ bkey.ok /\ bkey.val = <<"builds">> /\ Expect(t, bkey.next, ": ")
           /\ Expect(t, bkey.next + 1, "[") /\ Expect(t, bkey.next + 2, "{")
           /\ src.ok /\ Expect(t, src.next, ", ")
           /\ use.ok /\ Expect(t, use.next, "}")
           /\ Expect(t, use.next + 1, "]") /\ Expect(t, use.next + 2, "}")
           /\ Len(t) = use.next + 2
          THEN [name |-> name.val,
                version |-> DecimalValue(SubSeq(t, vkey.next + 1, vend - 1)),
                builds |-> << [src |-> src.val, use |-> use.val] >>]
          ELSE InvalidManifest

\* x is s without the whitespace at its two ends
IsStripOf(x, s) ==
    /\ x = <<>> \/ (Head(x) \notin Whitespace /\ x[Len(x)] \notin Whitespace)
    /\ \E a \in 1..(Len(s) + 1) :
         /\ a + Len(x) - 1 <= Len(s)
         /\ SubSeq(s, a, a + Len(x) - 1) = x
         /\ \A i \in 1..Len(s) : (i < a \/ i > a + Len(x) - 1) => s[i] \in Whitespace

Invoked(r) == calls[r].command > 0
DataOf(listing, name) == {e.data : e \in {f \in listing : f.name = name /\ f.kind = "file"}}

\* --------------------------------------------------------------- claims

\* C1: a run whose profile fetch returned a status other than 200 has ended
\* by returning, has made no call to the generation step and none to the
\* deployment step, has made no temporary directory and started no command,
\* and has printed one line only, the error line that ends in that status.
C1_FetchFailureStopsRun ==
    \A r \in Runs :
        status_code[r] \notin {0, 200} =>
            /\ pc[r] = "returned"
            /\ calls[r].generate = 0 /\ calls[r].deploy = 0
            /\ calls[r].tempdir = 0 /\ calls[r].command = 0
            /\ temp_dir[r] \notin dirs
            /\ Len(output[r]) = 1
            /\ Head(output[r][1]) = "Error fetching GitHub profile data. Status code: "
            /\ DecimalValue(Tail(output[r][1])) = status_code[r]
C1_Witness ==
    \E r \in Runs : status_code[r] = 404 /\ pc[r] = "returned" /\ calls[r].fetch = 1

\* C2: once a run has returned or aborted, neither the temporary directory it
\* acquired nor the project directory it made exists.
C2_TempDirRemoved ==
    \A r \in Runs :
        pc[r] \in Terminal =>
            /\ temp_dir[r] \notin dirs
            /\ Resolve(project_dir[r]) \notin dirs

\* C3: when the deployment command is started, the project directory holds
\* two entries and no more, the files index.html and vercel.json, each closed
\* and holding all of the text written to it.
C3_ExactlyTwoFiles ==
    \A r \in Runs :
        Invoked(r) =>
            /\ Cardinality(seen[r]) = 2
            /\ {e.name : e \in seen[r]} = {<<"index.html">>, <<"vercel.json">>}
            /\ \A e \in seen[r] : e.kind = "file" /\ ~e.open
            /\ DataOf(seen[r], <<"index.html">>) =
                   {TextModeWrite(html_content[r], linesep)}
            /\ \A d \in DataOf(seen[r], <<"vercel.json">>) :
                   d # <<>> /\ d[Len(d)] = "}"
C3_Witness ==
    \E r \in Runs : pc[r] = "running" /\ Invoked(r) /\ html_content[r] # <<>>

\* C4: the manifest a run has written to vercel.json reads back as the name
\* "<identifier>-portfolio", version 2 and the one build rule of index.html
\* with @vercel/static, whatever the profile record and the markup were.
C4_ManifestShape ==
    \A r \in Runs :
        pc[r] \in {"manifest_written", "running", "leaving"} =>
            LET path == Append(Resolve(project_dir[r]), <<"vercel.json">>)
            IN  /\ path \in DOMAIN files
                /\ JsonLoads(files[path].data) =
                       [name |-> username[r] \o <<"-portfolio">>,
                        version |-> 2,
                        builds |-> << [src |-> <<"index.html">>,
                                       use |-> <<"@vercel/static">>] >>]
C4_Witness ==
    \E r \in Runs : pc[r] = "running" /\ username[r] = <<"a">> /\ html_content[r] = <<"h">>

\* C5: the index.html the deployment command finds holds the string the
\* generation step returned, character for character.
C5_MarkupUnmodified ==
    \A r \in Runs :
        Invoked(r) => DataOf(seen[r], <<"index.html">>) = {html_content[r]}

\* C6: a run whose generation call failed has aborted there: it made no
\* temporary directory, wrote no file and started no deployment command.
C6_GenerationFailureAborts ==
    \A r \in Runs :
        exc[r] = "GenerationError" =>
            /\ pc[r] = "raised"
            /\ status_code[r] = 200
            /\ calls[r].deploy = 0 /\ calls[r].tempdir = 0 /\ calls[r].command = 0
            /\ temp_dir[r] \notin dirs
            /\ dirs = {<<>>, TmpRoot}
            /\ DOMAIN files = {}
C6_Witness ==
    \E r \in Runs : exc[r] = "GenerationError" /\ pc[r] = "raised" /\ calls[r].generate = 1

\* C7: once the deployment command has ended, the run has printed one outcome
\* picked by the exit status alone: for status zero the success line and the
\* command's output with the whitespace at its ends removed, for any other
\* status the failure line with the command's error output; no exception is
\* in flight, and the run ends by returning.
C7_ExitStatusPicksOutcome ==
    \A r \in Runs :
        result[r] # NoResult =>
            /\ pc[r] \in {"leaving", "returned"}
            /\ exc[r] = "none"
            /\ IF result[r].returncode = 0
                 THEN /\ Len(output[r]) = 2
                      /\ output[r][1] = <<"Deployment successful!">>
                      /\ Head(output[r][2]) = "Your website is live at: "
                      /\ IsStripOf(Tail(output[r][2]), result[r].stdout)
                 ELSE /\ Len(output[r]) = 1
                      /\ output[r][1] = <<"Deployment failed:", " ">> \o result[r].stderr
C7_Witness ==
    \E r \in Runs :
        /\ pc[r] = "returned"
        /\ result[r].returncode = 1
        /\ result[r].stderr = <<"Invalid token">>

CredentialMissing ==
    env.VERCEL_TOKEN \in {"None", ""} \/ env.OPENAI_API_KEY \in {"None", ""}
FetchError(r) == status_code[r] \notin {0, 200}
GenerationError(r) == exc[r] = "GenerationError"
DeploymentError(r) == result[r] # NoResult /\ result[r].returncode # 0

\* C8, as claimed: every error of the taxonomy (a missing credential, a fetch
\* failure, a generation failure, a deployment failure) shows as a printed
\* line, and none as an exception delivered to the caller.
C8_AllErrorsPrinted ==
    /\ CredentialMissing => proc # "ValueError"
    /\ \A r \in Runs :
           (FetchError(r) \/ GenerationError(r) \/ DeploymentError(r)) =>
               exc[r] = "none" /\ output[r] # <<>>

\* C8, amended: every error of the taxonomy ends the run, and each shows the
\* way the code handles it: a fetch failure and a deployment failure as one
\* printed line with the run returning normally, a generation failure as an
\* exception delivered to the caller with nothing printed, and a missing
\* credential as a ValueError raised at startup before any run begins.
C8_ErrorsSurfaceAsCoded ==
    /\ (CredentialMissing /\ proc # "boot") =>
           /\ proc = "ValueError"
           /\ \A r \in Runs : pc[r] \in {"start", "idle"} /\ output[r] = <<>>
    /\ \A r \in Runs :
           /\ FetchError(r) =>
                  pc[r] = "returned" /\ exc[r] = "none" /\ Len(output[r]) = 1
           /\ GenerationError(r) => pc[r] = "raised" /\ output[r] = <<>>
           /\ DeploymentError(r) =>
                  /\ pc[r] \in {"leaving", "returned"}
                  /\ exc[r] = "none"
                  /\ Len(output[r]) = 1
                  /\ Head(output[r][1]) = "Deployment failed:"
C8_Witness ==
    \/ proc = "ValueError" /\ env.OPENAI_API_KEY = "None" /\ env.VERCEL_TOKEN = "tok"
    \/ \E r \in Runs : GenerationError(r) /\ pc[r] = "raised" /\ output[r] = <<>>

\* C9: of two overlapping runs for different identifiers, each meets what it
\* would meet alone: it is never stopped by a directory that is already
\* there, and the command it starts finds its own two files and nothing
\* else, index.html holding its own markup and vercel.json its own name.
C9_RunsIndependent ==
    \A r \in Runs : \A o \in Runs \ {r} :
        username[r] # username[o] =>
            /\ exc[r] # "FileExistsError"
            /\ Invoked(r) =>
                   /\ {e.name : e \in seen[r]} = {<<"index.html">>, <<"vercel.json">>}
                   /\ DataOf(seen[r], <<"index.html">>) =
                          {TextModeWrite(html_content[r], linesep)}
                   /\ \A d \in DataOf(seen[r], <<"vercel.json">>) :
                          JsonLoads(d).name = username[r] \o <<"-portfolio">>

\* C10: in every run each external call is issued at most once and in order:
\* a run that has left its start has fetched exactly once; the generation
\* call is made only after a fetch that returned 200; the deployment command
\* is started only after the generation call returned its text; and after a
\* failure nothing further is called.
C10_OneWayAtMostOnce ==
    \A r \in Runs :
        /\ calls[r].fetch <= 1 /\ calls[r].json <= 1 /\ calls[r].generate <= 1
        /\ calls[r].deploy <= 1 /\ calls[r].tempdir <= 1 /\ calls[r].command <= 1
        /\ pc[r] \notin {"idle", "start"} => calls[r].fetch = 1
        /\ calls[r].generate = 1 => calls[r].fetch = 1 /\ status_code[r] = 200
        /\ calls[r].command = 1 =>
               /\ calls[r].generate = 1 /\ calls[r].deploy = 1
               /\ html_content[r] # NoText
               /\ exc[r] = "none"
        /\ FetchError(r) => calls[r].generate = 0 /\ calls[r].command = 0
        /\ exc[r] \in {"RequestException", "JSONDecodeError"} => calls[r].generate = 0
        /\ exc[r] # "none" => calls[r].command = 0
C10_Witness ==
    \E r \in Runs :
        /\ pc[r] = "returned"
        /\ calls[r].fetch = 1 /\ calls[r].generate = 1 /\ calls[r].command = 1
====
